---- MODULE Spec2Model ----
(***************************************************************************)
(* A model of youtube_clip_downloader (src/src/main.rs).                   *)
(*                                                                         *)
(* Part 1: the string functions handle_link, VideoLink::new, handle_time,  *)
(*         computed on strings as the code computes them.                  *)
(* Part 2: the run of main: check_cache, organize_videos, the cached /     *)
(*         uncached ordering, the get_video loop on the main thread, and   *)
(*         the ThreadPool workers running process_video / clip_video.      *)
(***************************************************************************)
EXTENDS Integers, Sequences, FiniteSets, TLC

VARIABLES
    \* ---- Part 1: normalizer harness
    normShape,      \* the URL shape of the input link
    normVid,        \* the video id the input link was built from
    normLink,       \* the raw input link
    normOnce,       \* handle_link(normLink), "" before it is applied
    normCur,        \* the value after normK applications of handle_link
    normK,          \* number of applications of handle_link so far
    normId,         \* id field of VideoLink::new(normLink); "" before, "PANIC" if it panics
    normTime,       \* the raw input time
    normTimeOut,    \* handle_time(normTime); "" before, "PANIC" if it panics
    \* ---- Part 2: the run
    rows,           \* the rows of Sheet1: [start, end, link]
    cacheDir,       \* file names in CACHE_DIR
    outDirs,        \* video ids with a directory under DOWNLOAD_DIR
    outFiles,       \* paths of the clip files written
    downloaded_videos, \* main: HashMap<String, PathBuf> built by check_cache
    videos,         \* main: HashMap<String, Vec<VideoLink>>
    iterOrder,      \* the iteration order of the HashMap videos_list
    id_videos,      \* main: Vec<String>
    mainPc,         \* the position of the main thread
    idx,            \* index into id_videos of the loop at line 73
    curVideo,       \* get_video in progress: [id, path]
    queue,          \* jobs accepted by the pool and not yet started
    worker,         \* worker thread -> the job it runs, or Idle
    jobState,       \* video id -> state of its job
    submitted,      \* ids in the order pool.execute was called
    metaLog,        \* ids in the order run_async (metadata query) was called
    dlLog,          \* ids in the order download_to_async was called
    trims           \* video id -> the ffmpeg invocations made for it, in order

normVars == <<normShape, normVid, normLink, normOnce, normCur, normK, normId,
              normTime, normTimeOut>>
fsVars == <<cacheDir, outDirs, outFiles>>
mainVars == <<downloaded_videos, videos, iterOrder, id_videos, mainPc, idx, curVideo>>
poolVars == <<queue, worker>>
logVars == <<jobState, submitted, metaLog, dlLog, trims>>
runVars == <<rows, fsVars, mainVars, poolVars, logVars>>
vars == <<normVars, runVars>>

-----------------------------------------------------------------------------
(* Strings: str::contains, str::find, str::replace, str::split, slicing.   *)

\* str::find(pat): the 1-based index of the first match, 0 when there is none
Find(s, pat) ==
    LET n == Len(pat)
        hits == {i \in 1..(Len(s) - n + 1) : SubSeq(s, i, i + n - 1) = pat}
    IN IF hits = {} THEN 0 ELSE CHOOSE i \in hits : \A j \in hits : i <= j

\* str::rfind(pat): the 1-based index of the last match, 0 when there is none
RFind(s, pat) ==
    LET n == Len(pat)
        hits == {i \in 1..(Len(s) - n + 1) : SubSeq(s, i, i + n - 1) = pat}
    IN IF hits = {} THEN 0 ELSE CHOOSE i \in hits : \A j \in hits : j <= i

Contains(s, pat) == Find(s, pat) # 0

\* &s[..index]: the part before the byte at (1-based) position i
Before(s, i) == SubSeq(s, 1, i - 1)

\* the part from (1-based) position i on
From(s, i) == SubSeq(s, i, Len(s))

RECURSIVE Replace(_, _, _)
\* str::replace(from, to): every non-overlapping match, left to right
Replace(s, from, to) ==
    LET i == Find(s, from)
    IN IF i = 0 THEN s
       ELSE Before(s, i) \o to \o Replace(From(s, i + Len(from)), from, to)

RECURSIVE Split(_, _)
\* str::split(sep).collect::<Vec<&str>>()
Split(s, sep) ==
    LET i == Find(s, sep)
    IN IF i = 0 THEN <<s>>
       ELSE <<Before(s, i)>> \o Split(From(s, i + Len(sep)), sep)

-----------------------------------------------------------------------------
(* Program constants (string literals of main.rs)                          *)

DOWNLOAD_DIR == "./video"
CACHE_DIR == "./cache"
LIVE_PREFIX == "https://www.youtube.com/live/"
SHORT_PREFIX == "https://youtu.be/"
WATCH_PREFIX == "https://www.youtube.com/watch?v="

-----------------------------------------------------------------------------
(* handle_link, VideoLink::new, handle_time                                *)

\* mutant: `else if` for the second cut, so one call removes one parameter only
StripWatchParamsElseIf(link) ==
    IF Contains(link, "&list=") THEN Before(link, Find(link, "&list="))
    ELSE IF Contains(link, "&index=") THEN Before(link, Find(link, "&index="))
    ELSE link

\* the match arm `true` of handle_link: cut at "&list=", then at "&index="
StripWatchParams(link) ==
    LET a == IF Contains(link, "&list=") THEN Before(link, Find(link, "&list=")) ELSE link
    IN IF Contains(a, "&index=") THEN Before(a, Find(a, "&index=")) ELSE a

\* the match arm `false` of handle_link: a short link with a ?query
StripShortQuery(link) ==
    IF Contains(link, "?")
    THEN WATCH_PREFIX \o Replace(Before(link, Find(link, "?")), SHORT_PREFIX, "")
    ELSE link

\* the last step of handle_link: a remaining short link becomes a watch URL
ShortToWatch(link) ==
    IF Contains(link, SHORT_PREFIX) THEN Replace(link, SHORT_PREFIX, WATCH_PREFIX) ELSE link

handle_link(link) ==
    LET l1 == IF Contains(link, LIVE_PREFIX)
              THEN Replace(link, LIVE_PREFIX, SHORT_PREFIX) ELSE link
        l2 == IF Contains(l1, "watch") THEN StripWatchParams(l1) ELSE StripShortQuery(l1)
    IN ShortToWatch(l2)

\* VideoLink::new indexes [1] of the split at "v=": it panics with fewer than 2 parts
VideoLinkNewPanics(link) == Len(Split(handle_link(link), "v=")) < 2

\* the id field set by VideoLink::new
VideoLinkNewId(link) == Split(handle_link(link), "v=")[2]

handle_timePanics(time) == Len(Split(time, ":")) \notin {1, 2, 3}

\* mutant: a single segment taken as minutes
handle_timeAsMinutes(time) ==
    LET t == Split(time, ":")
    IN CASE Len(t) = 1 -> "00:" \o t[1] \o ":00"
         [] Len(t) = 2 -> "00:" \o t[1] \o ":" \o t[2]
         [] Len(t) = 3 -> t[1] \o ":" \o t[2] \o ":" \o t[3]

handle_time(time) ==
    LET t == Split(time, ":")
    IN CASE Len(t) = 1 -> "00:00:" \o t[1]
         [] Len(t) = 2 -> "00:" \o t[1] \o ":" \o t[2]
         [] Len(t) = 3 -> t[1] \o ":" \o t[2] \o ":" \o t[3]

-----------------------------------------------------------------------------
(* Inputs of the normalizer harness                                        *)

MaxSegments == 4

\* video ids; the first is the one of the comment at main.rs:252
Vids == {"oKK4H33nUIs", "abc123", "Hwatch7_x-Q"}

SupportedShapes == {"watch", "watch_list", "watch_index", "watch_list_index",
                    "watch_index_list", "short", "short_query", "live", "live_query"}
Shapes == SupportedShapes \cup {"other"}

\* the raw link of a video in a given URL shape
LinkOf(shape, v) ==
    CASE shape = "watch"            -> WATCH_PREFIX \o v
      [] shape = "watch_list"       -> WATCH_PREFIX \o v \o "&list=PLx7"
      [] shape = "watch_index"      -> WATCH_PREFIX \o v \o "&index=2"
      [] shape = "watch_list_index" -> WATCH_PREFIX \o v \o "&list=PLx7&index=2"
      [] shape = "watch_index_list" -> WATCH_PREFIX \o v \o "&index=2&list=PLx7"
      [] shape = "short"            -> SHORT_PREFIX \o v
      [] shape = "short_query"      -> SHORT_PREFIX \o v \o "?si=LTe469e_gP5Co6yd"
      [] shape = "live"             -> LIVE_PREFIX \o v
      [] shape = "live_query"       -> LIVE_PREFIX \o v \o "?si=LTe469e_gP5Co6yd"
      [] shape = "other"            -> "https://example.com/" \o v

Segments == {"5", "30", "02"}

RECURSIVE JoinColon(_)
JoinColon(segs) ==
    IF Len(segs) = 1 THEN segs[1] ELSE segs[1] \o ":" \o JoinColon(Tail(segs))

SegmentLists == UNION {[1..n -> Segments] : n \in 1..MaxSegments}
\* generated times, and the examples of the spec
TimeInputs == {JoinColon(segs) : segs \in SegmentLists} \cup {"1:30", "1:02:03"}

-----------------------------------------------------------------------------
(* The idle values of the run's variables                                  *)

EmptyMap == [x \in {} |-> ""]
IdleWorker == [pc |-> "idle", id |-> "", path |-> "", clips |-> <<>>, i |-> 0]
NoVideo == [id |-> "", path |-> ""]

RunOff ==
    /\ rows = <<>>
    /\ cacheDir = {} /\ outDirs = {} /\ outFiles = {}
    /\ downloaded_videos = EmptyMap /\ videos = EmptyMap
    /\ iterOrder = <<>> /\ id_videos = <<>>
    /\ mainPc = "off" /\ idx = 0 /\ curVideo = NoVideo
    /\ queue = <<>> /\ worker = <<>>
    /\ jobState = EmptyMap /\ submitted = <<>> /\ metaLog = <<>> /\ dlLog = <<>>
    /\ trims = EmptyMap

-----------------------------------------------------------------------------
(* Part 1: the normalizer harness                                          *)

InitNorm ==
    /\ normShape \in Shapes
    /\ normVid \in Vids
    /\ normLink = LinkOf(normShape, normVid)
    /\ normOnce = "" /\ normCur = normLink /\ normK = 0 /\ normId = ""
    /\ normTime \in TimeInputs
    /\ normTimeOut = ""
    /\ RunOff

\* link = handle_link(link), applied to its own result the second time
ApplyHandleLink ==
    /\ normK < 2
    /\ normCur' = handle_link(normCur)
    /\ normOnce' = IF normK = 0 THEN handle_link(normCur) ELSE normOnce
    /\ normK' = normK + 1
    /\ UNCHANGED <<normShape, normVid, normLink, normId, normTime, normTimeOut, runVars>>

\* VideoLink::new(link)
ApplyVideoLinkNew ==
    /\ normId = ""
    /\ normId' = IF VideoLinkNewPanics(normLink) THEN "PANIC" ELSE VideoLinkNewId(normLink)
    /\ UNCHANGED <<normShape, normVid, normLink, normOnce, normCur, normK,
                   normTime, normTimeOut, runVars>>

\* VideoLink::set_start_time / set_end_time: handle_time(time)
ApplyHandleTime ==
    /\ normTimeOut = ""
    /\ normTimeOut' = IF handle_timePanics(normTime) THEN "PANIC" ELSE handle_time(normTime)
    /\ UNCHANGED <<normShape, normVid, normLink, normOnce, normCur, normK, normId,
                   normTime, runVars>>

NextNorm == ApplyHandleLink \/ ApplyVideoLinkNew \/ ApplyHandleTime

SpecNorm == InitNorm /\ [][NextNorm]_vars

-----------------------------------------------------------------------------
(* Part 2: inputs of the run                                               *)

MaxRows == 3
PoolSize == 4

\* candidate rows of Sheet1: two links of one video in different shapes, two
\* other videos, a row whose link has no v= marker after handle_link, and a row
\* whose end time has four segments
RowSet ==
    { [start |-> "5",       end |-> "10",      link |-> LinkOf("watch_list_index", "idA")],
      [start |-> "1:30",    end |-> "2:00",    link |-> LinkOf("short_query", "idA")],
      [start |-> "10",      end |-> "20",      link |-> LinkOf("short", "idB")],
      [start |-> "1:02:03", end |-> "1:02:09", link |-> LinkOf("live", "idC")],
      [start |-> "0",       end |-> "9",       link |-> LinkOf("other", "idA")],
      [start |-> "7",       end |-> "0:1:2:3", link |-> LinkOf("watch", "idC")] }

\* the sheets: up to MaxRows rows, no row twice
Sheets ==
    {s \in UNION {[1..n -> RowSet] : n \in 0..MaxRows} :
        \A i, j \in 1..Len(s) : i # j => s[i] # s[j]}

\* files that may lie in CACHE_DIR when the run starts
CacheFiles == {"idB.webm", "idC.mkv"}

\* output directories that may exist when the run starts
OldOutDirs == {"idB"}

NormOff ==
    /\ normShape = "off" /\ normVid = "" /\ normLink = "" /\ normOnce = ""
    /\ normCur = "" /\ normK = 0 /\ normId = "" /\ normTime = "" /\ normTimeOut = ""

\* mutant: the pool has one thread more
WorkersOneMore == 1..(PoolSize + 1)

\* the threads of ThreadPool::new(4)
Workers == 1..PoolSize

-----------------------------------------------------------------------------
(* Helpers of the run                                                      *)

\* Path::file_stem: the file name without its last extension
FileStem(name) ==
    LET i == RFind(name, ".")
    IN IF i <= 1 THEN name ELSE Before(name, i)

\* entry.path() of an entry of CACHE_DIR
CachePath(name) == CACHE_DIR \o "/" \o name

\* check_cache: file stem -> path, for every entry of CACHE_DIR
CacheIndex(dir) ==
    [id \in {FileStem(f) : f \in dir} |->
        CachePath(CHOOSE f \in dir : FileStem(f) = id)]

\* a row's cells are well formed when VideoLink::new and handle_time do not panic
RowPanics(row) ==
    \/ VideoLinkNewPanics(row.link)
    \/ handle_timePanics(row.start)
    \/ handle_timePanics(row.end)

\* the VideoLink built from a row (main.rs:295-297)
MakeVideoLink(row) ==
    [id |-> VideoLinkNewId(row.link),
     start_time |-> handle_time(row.start),
     end_time |-> handle_time(row.end)]

\* mutant: the entry of a known id is replaced instead of extended
AddToGroupOverwrite(acc, v) ==
    IF v.id \notin DOMAIN acc THEN acc @@ (v.id :> <<v>>)
    ELSE [acc EXCEPT ![v.id] = <<v>>]

\* main.rs:301-308: insert a new Vec on a vacant entry, push otherwise
AddToGroup(acc, v) ==
    IF v.id \notin DOMAIN acc THEN acc @@ (v.id :> <<v>>)
    ELSE [acc EXCEPT ![v.id] = Append(@, v)]

RECURSIVE GroupRows(_, _)
\* the loop over range.rows() of organize_videos
GroupRows(rs, acc) ==
    IF rs = <<>> THEN acc
    ELSE GroupRows(Tail(rs), AddToGroup(acc, MakeVideoLink(Head(rs))))

\* the possible iteration orders of a HashMap with key set S
IterationOrders(S) ==
    {f \in [1..Cardinality(S) -> S] : \A i, j \in 1..Cardinality(S) : i # j => f[i] # f[j]}

\* mutant: the two loops in the other order
OrderedIdsUncachedFirst(order, cache) ==
    SelectSeq(order, LAMBDA id : id \notin DOMAIN cache)
        \o SelectSeq(order, LAMBDA id : id \in DOMAIN cache)

RECURSIVE Reverse(_)
Reverse(s) == IF s = <<>> THEN <<>> ELSE Append(Reverse(Tail(s)), Head(s))

\* mutant: the second loop walks the map backwards
OrderedIdsSecondReversed(order, cache) ==
    SelectSeq(order, LAMBDA id : id \in DOMAIN cache)
        \o Reverse(SelectSeq(order, LAMBDA id : id \notin DOMAIN cache))

\* mutant: the second loop does not test the cache, so cached ids are pushed twice
OrderedIdsNoFilter(order, cache) ==
    SelectSeq(order, LAMBDA id : id \in DOMAIN cache) \o order

\* main.rs:60-71: the ids with a cache entry, then the ids without one, each
\* in the iteration order of videos_list
OrderedIds(order, cache) ==
    SelectSeq(order, LAMBDA id : id \in DOMAIN cache)
        \o SelectSeq(order, LAMBDA id : id \notin DOMAIN cache)

\* mutant: the cache is not consulted
CacheMissAlways(id, cache) == TRUE

\* get_video: the None arm of match cache.get(&id)
CacheMiss(id, cache) == id \notin DOMAIN cache

\* mutant: the result of create_dir is ignored
CreateDirOkAlways(id, dirs) == TRUE

\* process_video: fs::create_dir(..).is_ok(), which fails on an existing directory
CreateDirOk(id, dirs) == id \notin dirs

\* mutant: a zero-based index in the file name
OutputPathZeroBased(clip, index) ==
    DOWNLOAD_DIR \o "/" \o clip.id \o "/" \o clip.id \o " [" \o ToString(index - 1) \o "].mp4"

\* clip_video: format!("{}/{}/{} [{}].mp4", DOWNLOAD_DIR, video.id, video.id, index)
OutputPath(clip, index) ==
    DOWNLOAD_DIR \o "/" \o clip.id \o "/" \o clip.id \o " [" \o ToString(index) \o "].mp4"

\* the arguments of one ffmpeg invocation of clip_video
TrimArgs(index, clip, path) ==
    [index |-> index, ss |-> clip.start_time, to |-> clip.end_time,
     input |-> path, output |-> OutputPath(clip, index)]

\* the process lives: main has neither returned nor panicked
Alive == mainPc \notin {"off", "done", "panicked"}

-----------------------------------------------------------------------------
(* Part 2: the run                                                         *)

Init ==
    /\ NormOff
    /\ rows \in Sheets
    /\ cacheDir \in SUBSET CacheFiles
    /\ outDirs \in SUBSET OldOutDirs
    /\ outFiles = {}
    /\ downloaded_videos = EmptyMap /\ videos = EmptyMap
    /\ iterOrder = <<>> /\ id_videos = <<>>
    /\ mainPc = "check_cache" /\ idx = 0 /\ curVideo = NoVideo
    /\ queue = <<>>
    /\ worker = [w \in Workers |-> IdleWorker]
    /\ jobState = EmptyMap /\ submitted = <<>> /\ metaLog = <<>> /\ dlLog = <<>>
    /\ trims = EmptyMap

\* main.rs:55 check_cache(&mut downloaded_videos)
CheckCache ==
    /\ mainPc = "check_cache"
    /\ downloaded_videos' = CacheIndex(cacheDir)
    /\ mainPc' = "organize"
    /\ UNCHANGED <<normVars, rows, fsVars, videos, iterOrder, id_videos, idx, curVideo,
                   poolVars, logVars>>

\* mutant: a malformed row is skipped and the other rows are grouped
OrganizeVideosBestEffort ==
    /\ mainPc = "organize"
    /\ videos' = GroupRows(SelectSeq(rows, LAMBDA r : ~RowPanics(r)), EmptyMap)
    /\ iterOrder' \in IterationOrders(DOMAIN videos')
    /\ jobState' = [id \in DOMAIN videos' |-> "Pending"]
    /\ trims' = [id \in DOMAIN videos' |-> <<>>]
    /\ mainPc' = "order"
    /\ UNCHANGED <<normVars, rows, fsVars, downloaded_videos, id_videos, idx, curVideo,
                   poolVars, submitted, metaLog, dlLog>>

\* main.rs:57-58 organize_videos: panics on an empty sheet or a malformed row
OrganizeVideos ==
    /\ mainPc = "organize"
    /\ IF rows = <<>> \/ \E k \in 1..Len(rows) : RowPanics(rows[k])
       THEN /\ mainPc' = "panicked"
            /\ UNCHANGED <<videos, iterOrder, jobState, trims>>
       ELSE /\ videos' = GroupRows(rows, EmptyMap)
            /\ iterOrder' \in IterationOrders(DOMAIN videos')
            /\ jobState' = [id \in DOMAIN videos' |-> "Pending"]
            /\ trims' = [id \in DOMAIN videos' |-> <<>>]
            /\ mainPc' = "order"
    /\ UNCHANGED <<normVars, rows, fsVars, downloaded_videos, id_videos, idx, curVideo,
                   poolVars, submitted, metaLog, dlLog>>

\* main.rs:60-71 the two loops filling id_videos
OrderVideos ==
    /\ mainPc = "order"
    /\ id_videos' = OrderedIds(iterOrder, downloaded_videos)
    /\ idx' = 1
    /\ mainPc' = "loop"
    /\ UNCHANGED <<normVars, rows, fsVars, downloaded_videos, videos, iterOrder, curVideo,
                   poolVars, logVars>>

\* main.rs:73-75, get_video up to the call of run_async (main.rs:94 / 102)
GetVideoStart ==
    /\ mainPc = "loop" /\ idx <= Len(id_videos)
    /\ LET id == id_videos[idx]
       IN /\ curVideo' = [id |-> id,
                          path |-> IF CacheMiss(id, downloaded_videos) THEN ""
                                   ELSE downloaded_videos[id]]
          /\ metaLog' = Append(metaLog, id)
          /\ jobState' = [jobState EXCEPT ![id] = "Fetching"]
    /\ mainPc' = "meta"
    /\ UNCHANGED <<normVars, rows, fsVars, downloaded_videos, videos, iterOrder, id_videos,
                   idx, poolVars, submitted, dlLog, trims>>

\* mutant: the error of the metadata query is swallowed and the job submitted
MetadataFailsContinues ==
    /\ mainPc = "meta"
    /\ jobState' = [jobState EXCEPT ![curVideo.id] = "FetchFailed"]
    /\ mainPc' = "submit"
    /\ UNCHANGED <<normVars, rows, fsVars, downloaded_videos, videos, iterOrder, id_videos,
                   idx, curVideo, poolVars, submitted, metaLog, dlLog, trims>>

\* run_async().await.unwrap().into_single_video().unwrap() or title.unwrap() panics
MetadataFails ==
    /\ mainPc = "meta"
    /\ jobState' = [jobState EXCEPT ![curVideo.id] = "FetchFailed"]
    /\ mainPc' = "panicked"
    /\ UNCHANGED <<normVars, rows, fsVars, downloaded_videos, videos, iterOrder, id_videos,
                   idx, curVideo, poolVars, submitted, metaLog, dlLog, trims>>

\* the metadata query returns; on a cache miss download_to_async is called (main.rs:108)
MetadataReturns ==
    /\ mainPc = "meta"
    /\ IF CacheMiss(curVideo.id, downloaded_videos)
       THEN /\ dlLog' = Append(dlLog, curVideo.id)
            /\ mainPc' = "download"
       ELSE /\ mainPc' = "submit"
            /\ UNCHANGED dlLog
    /\ UNCHANGED <<normVars, rows, fsVars, downloaded_videos, videos, iterOrder, id_videos,
                   idx, curVideo, poolVars, jobState, submitted, metaLog, trims>>

\* download_to_async fails: unwrap_or_else panics (main.rs:110)
DownloadFails ==
    /\ mainPc = "download"
    /\ jobState' = [jobState EXCEPT ![curVideo.id] = "FetchFailed"]
    /\ mainPc' = "panicked"
    /\ UNCHANGED <<normVars, rows, fsVars, downloaded_videos, videos, iterOrder, id_videos,
                   idx, curVideo, poolVars, submitted, metaLog, dlLog, trims>>

\* download_to_async returns Ok; the tool wrote <id>.<ext> into CACHE_DIR, or did not
DownloadReturns ==
    /\ mainPc = "download"
    /\ \E wrote \in BOOLEAN :
          cacheDir' = IF wrote THEN cacheDir \cup {curVideo.id \o ".mp4"} ELSE cacheDir
    /\ mainPc' = "check_folder"
    /\ UNCHANGED <<normVars, rows, outDirs, outFiles, downloaded_videos, videos, iterOrder,
                   id_videos, idx, curVideo, poolVars, logVars>>

\* check_folder (main.rs:119-130): the entry whose stem is the id, or a panic
CheckFolder ==
    /\ mainPc = "check_folder"
    /\ LET found == {f \in cacheDir : FileStem(f) = curVideo.id}
       IN IF found = {}
          THEN /\ jobState' = [jobState EXCEPT ![curVideo.id] = "FetchFailed"]
               /\ mainPc' = "panicked"
               /\ UNCHANGED curVideo
          ELSE /\ \E f \in found : curVideo' = [curVideo EXCEPT !.path = CachePath(f)]
               /\ mainPc' = "submit"
               /\ UNCHANGED jobState
    /\ UNCHANGED <<normVars, rows, fsVars, downloaded_videos, videos, iterOrder, id_videos,
                   idx, poolVars, submitted, metaLog, dlLog, trims>>

\* main.rs:76-78 pool.execute(move || process_video(video, clip_ref))
Submit ==
    /\ mainPc = "submit"
    /\ queue' = Append(queue, [id |-> curVideo.id, path |-> curVideo.path,
                               clips |-> videos[curVideo.id]])
    /\ submitted' = Append(submitted, curVideo.id)
    /\ jobState' = [jobState EXCEPT ![curVideo.id] = "Fetched"]
    /\ idx' = idx + 1
    /\ curVideo' = NoVideo
    /\ mainPc' = "loop"
    /\ UNCHANGED <<normVars, rows, fsVars, downloaded_videos, videos, iterOrder, id_videos,
                   worker, metaLog, dlLog, trims>>

\* the loop at main.rs:73 is over: pool.join() is called
LoopEnds ==
    /\ mainPc = "loop" /\ idx > Len(id_videos)
    /\ mainPc' = "join"
    /\ UNCHANGED <<normVars, rows, fsVars, downloaded_videos, videos, iterOrder, id_videos,
                   idx, curVideo, poolVars, logVars>>

\* mutant: main returns without waiting for the pool
PoolJoinNoWait ==
    /\ mainPc = "join"
    /\ mainPc' = "done"
    /\ UNCHANGED <<normVars, rows, fsVars, downloaded_videos, videos, iterOrder, id_videos,
                   idx, curVideo, poolVars, logVars>>

\* main.rs:81-83 pool.join() returns when no job is queued or active; main returns
PoolJoin ==
    /\ mainPc = "join"
    /\ queue = <<>>
    /\ \A w \in Workers : worker[w].pc = "idle"
    /\ mainPc' = "done"
    /\ UNCHANGED <<normVars, rows, fsVars, downloaded_videos, videos, iterOrder, id_videos,
                   idx, curVideo, poolVars, logVars>>

\* an idle worker thread (the lowest one, the threads being alike) takes the
\* oldest queued job and enters process_video
WorkerTake(w) ==
    /\ Alive
    /\ queue # <<>>
    /\ worker[w].pc = "idle"
    /\ \A u \in Workers : u < w => worker[u].pc # "idle"
    /\ worker' = [worker EXCEPT ![w] = [pc |-> "mkdir", id |-> Head(queue).id,
                                        path |-> Head(queue).path,
                                        clips |-> Head(queue).clips, i |-> 0]]
    /\ queue' = Tail(queue)
    /\ UNCHANGED <<normVars, rows, fsVars, mainVars, logVars>>

\* main.rs:133 fs::create_dir: the directory is created and the clips follow
CreateDirCreates(w) ==
    /\ Alive
    /\ worker[w].pc = "mkdir"
    /\ CreateDirOk(worker[w].id, outDirs)
    /\ outDirs' = outDirs \cup {worker[w].id}
    /\ worker' = [worker EXCEPT ![w].pc = "clip", ![w].i = 1]
    /\ jobState' = [jobState EXCEPT ![worker[w].id] = "Clipping"]
    /\ UNCHANGED <<normVars, rows, cacheDir, outFiles, mainVars, queue,
                   submitted, metaLog, dlLog, trims>>

\* main.rs:133 fs::create_dir fails on the existing directory: process_video returns
CreateDirSkips(w) ==
    /\ Alive
    /\ worker[w].pc = "mkdir"
    /\ ~CreateDirOk(worker[w].id, outDirs)
    /\ worker' = [worker EXCEPT ![w] = IdleWorker]
    /\ jobState' = [jobState EXCEPT ![worker[w].id] = "Done"]
    /\ UNCHANGED <<normVars, rows, fsVars, mainVars, queue, submitted, metaLog, dlLog, trims>>

\* clip_video: Command::new("ffmpeg")...output() starts the process
ClipSpawns(w) ==
    /\ Alive
    /\ worker[w].pc = "clip"
    /\ LET j == worker[w]
       IN trims' = [trims EXCEPT ![j.id] = Append(@, TrimArgs(j.i, j.clips[j.i], j.path))]
    /\ worker' = [worker EXCEPT ![w].pc = "ffmpeg"]
    /\ UNCHANGED <<normVars, rows, fsVars, mainVars, queue, jobState, submitted, metaLog, dlLog>>

\* mutant: the panic of a job's thread takes the process down
ClipSpawnFailsAborts(w) ==
    /\ Alive
    /\ worker[w].pc = "clip"
    /\ worker' = [worker EXCEPT ![w] = IdleWorker]
    /\ jobState' = [jobState EXCEPT ![worker[w].id] = "ClipFailed"]
    /\ mainPc' = "panicked"
    /\ UNCHANGED <<normVars, rows, fsVars, downloaded_videos, videos, iterOrder, id_videos,
                   idx, curVideo, queue, submitted, metaLog, dlLog, trims>>

\* clip_video: ffmpeg cannot be started, expect panics and the job's thread unwinds;
\* the pool replaces the thread
ClipSpawnFails(w) ==
    /\ Alive
    /\ worker[w].pc = "clip"
    /\ worker' = [worker EXCEPT ![w] = IdleWorker]
    /\ jobState' = [jobState EXCEPT ![worker[w].id] = "ClipFailed"]
    /\ UNCHANGED <<normVars, rows, fsVars, mainVars, queue, submitted, metaLog, dlLog, trims>>

\* clip_video: output() returns; the exit status is not looked at. ffmpeg wrote
\* the clip or failed; the loop of process_video goes on, or the job returns
ClipReturns(w) ==
    /\ Alive
    /\ worker[w].pc = "ffmpeg"
    /\ LET j == worker[w]
       IN /\ \E wrote \in BOOLEAN :
                outFiles' = IF wrote THEN outFiles \cup {OutputPath(j.clips[j.i], j.i)}
                            ELSE outFiles
          /\ IF j.i < Len(j.clips)
             THEN /\ worker' = [worker EXCEPT ![w].pc = "clip", ![w].i = j.i + 1]
                  /\ UNCHANGED jobState
             ELSE /\ worker' = [worker EXCEPT ![w] = IdleWorker]
                  /\ jobState' = [jobState EXCEPT ![j.id] = "Done"]
    /\ UNCHANGED <<normVars, rows, cacheDir, outDirs, mainVars, queue,
                   submitted, metaLog, dlLog, trims>>

MainStep ==
    \/ CheckCache \/ OrganizeVideos \/ OrderVideos
    \/ GetVideoStart \/ MetadataFails \/ MetadataReturns
    \/ DownloadFails \/ DownloadReturns \/ CheckFolder
    \/ Submit \/ LoopEnds \/ PoolJoin

WorkerStep(w) ==
    \/ WorkerTake(w)
    \/ CreateDirCreates(w) \/ CreateDirSkips(w)
    \/ ClipSpawns(w) \/ ClipSpawnFails(w) \/ ClipReturns(w)

Next == MainStep \/ \E w \in Workers : WorkerStep(w)

Spec == Init /\ [][Next]_vars

-----------------------------------------------------------------------------
(* The run with external tools that may never return.  yt-dlp is awaited on
   the main thread (main.rs:94, 102, 108); ffmpeg is waited for by
   Command::output in the job's pool thread (main.rs:146-164).  Neither call
   has a timeout. *)

\* run_async().await never completes: main stays inside get_video
MetadataHangs ==
    /\ mainPc = "meta"
    /\ mainPc' = "hung"
    /\ UNCHANGED <<normVars, rows, fsVars, downloaded_videos, videos, iterOrder, id_videos,
                   idx, curVideo, poolVars, jobState, submitted, metaLog, dlLog, trims>>

\* download_to_async(...).await never completes
DownloadHangs ==
    /\ mainPc = "download"
    /\ mainPc' = "hung"
    /\ UNCHANGED <<normVars, rows, fsVars, downloaded_videos, videos, iterOrder, id_videos,
                   idx, curVideo, poolVars, jobState, submitted, metaLog, dlLog, trims>>

\* Command::output() never returns: the pool thread stays inside clip_video
ClipHangs(w) ==
    /\ Alive
    /\ worker[w].pc = "ffmpeg"
    /\ worker' = [worker EXCEPT ![w].pc = "hung"]
    /\ UNCHANGED <<normVars, rows, fsVars, mainVars, queue, logVars>>

NextHang ==
    \/ Next
    \/ MetadataHangs \/ DownloadHangs
    \/ \E w \in Workers : ClipHangs(w)

SpecHang == Init /\ [][NextHang]_vars

-----------------------------------------------------------------------------
(* The pool with more jobs than threads: the run from the end of
   organize_videos on, for a sheet of PoolSize + 1 videos of one clip each,
   all of them in the cache. *)

PoolIds == [k \in 1..(PoolSize + 1) |-> "v" \o ToString(k)]

PoolRows ==
    [k \in 1..(PoolSize + 1) |-> [start |-> "5", end |-> "10",
                                  link |-> LinkOf("watch", PoolIds[k])]]

PoolCacheFiles == {PoolIds[k] \o ".mp4" : k \in 1..(PoolSize + 1)}

\* the state main is in after check_cache and organize_videos (main.rs:55-58)
InitPool ==
    /\ NormOff
    /\ rows = PoolRows
    /\ cacheDir = PoolCacheFiles
    /\ outDirs \in SUBSET {PoolIds[1]}
    /\ outFiles = {}
    /\ downloaded_videos = CacheIndex(PoolCacheFiles)
    /\ videos = GroupRows(PoolRows, EmptyMap)
    /\ iterOrder = PoolIds /\ id_videos = <<>>
    /\ mainPc = "order" /\ idx = 0 /\ curVideo = NoVideo
    /\ queue = <<>>
    /\ worker = [w \in Workers |-> IdleWorker]
    /\ jobState = [id \in DOMAIN videos |-> "Pending"]
    /\ submitted = <<>> /\ metaLog = <<>> /\ dlLog = <<>>
    /\ trims = [id \in DOMAIN videos |-> <<>>]

\* with every video cached the download and check_folder steps do not occur
NextPool ==
    \/ OrderVideos
    \/ GetVideoStart \/ MetadataFails \/ MetadataReturns
    \/ Submit \/ LoopEnds \/ PoolJoin
    \/ \E w \in Workers : WorkerStep(w)

SpecPool == InitPool /\ [][NextPool]_vars

-----------------------------------------------------------------------------
(* Claims about the run                                                    *)

Cached(id) == id \in DOMAIN downloaded_videos
RunEnded == mainPc \in {"done", "panicked"}
\* organize_videos has just returned (videos is not written after it)
Organized == mainPc = "order"

\* the id VideoLink::new gives each well-formed candidate row (a table of the
\* values of VideoLinkNewId, computed once)
IdOfRow == [r \in {x \in RowSet : ~RowPanics(x)} |-> VideoLinkNewId(r.link)]

\* the rows whose link normalizes to id, in sheet order
RowsOf(id) == SelectSeq(rows, LAMBDA r : r \in DOMAIN IdOfRow /\ IdOfRow[r] = id)

\* the first row of the sheet whose link normalizes to id, 0 when there is none
FirstRow(id) ==
    LET hits == {k \in 1..Len(rows) : rows[k] \in DOMAIN IdOfRow /\ IdOfRow[rows[k]] = id}
    IN IF hits = {} THEN 0 ELSE CHOOSE k \in hits : \A m \in hits : k <= m

\* the position of id in a sequence without repetitions
PosIn(seq, id) == CHOOSE k \in 1..Len(seq) : seq[k] = id

\* C1: download_to_async is invoked at most once per video id, and never for
\* an id that is in the cache index built at startup.
C1_DownloadAtMostOnce ==
    \A i \in 1..Len(dlLog) :
        /\ ~Cached(dlLog[i])
        /\ \A j \in 1..Len(dlLog) : i # j => dlLog[i] # dlLog[j]

C1_Witness ==
    /\ mainPc = "done"
    /\ Len(dlLog) = 2
    /\ \E id \in DOMAIN videos : Cached(id) /\ jobState[id] = "Done"

\* C2: when the run has ended with a fetch failure for one video, every other
\* video's job has run to its end (its clips were produced).
C2_FetchFailureIsolated ==
    (RunEnded /\ \E x \in DOMAIN jobState : jobState[x] = "FetchFailed") =>
        \A y \in DOMAIN jobState :
            jobState[y] # "FetchFailed" => jobState[y] \in {"Done", "ClipFailed"}

\* C3: every job of a cached video id is submitted to the pool before any job
\* of an uncached one.
C3_CachedSubmittedFirst ==
    \A i, j \in 1..Len(submitted) :
        (i < j /\ Cached(submitted[j])) => Cached(submitted[i])

C3_Witness ==
    /\ Len(submitted) = 3
    /\ ~Cached(IdOfRow[rows[1]])
    /\ Cached(IdOfRow[rows[3]])
    /\ Cached(submitted[1]) /\ ~Cached(submitted[3])

\* C4 (as stated): within the cached and within the uncached partition, jobs
\* are submitted in the order in which their ids first appear in the sheet;
\* ids first seen as A, B, C with only B cached are submitted as B, A, C.
C4_FirstAppearanceOrder ==
    /\ \A i, j \in 1..Len(submitted) :
          (i < j /\ Cached(submitted[i]) = Cached(submitted[j]))
              => FirstRow(submitted[i]) < FirstRow(submitted[j])
    /\ (/\ Len(submitted) = 3
        /\ FirstRow("idA") = 1 /\ FirstRow("idB") = 2 /\ FirstRow("idC") = 3
        /\ DOMAIN downloaded_videos = {"idB"})
          => submitted = <<"idB", "idA", "idC">>

\* C4 (amended): within the cached and within the uncached partition, jobs are
\* submitted in the iteration order of the HashMap of groups, which is the same
\* in both partitions and is not the order of the sheet; ids first seen as
\* A, B, C with only B cached are submitted B first, then A and C in either order.
C4_IterationOrder ==
    /\ \A i, j \in 1..Len(submitted) :
          (i < j /\ Cached(submitted[i]) = Cached(submitted[j]))
              => PosIn(iterOrder, submitted[i]) < PosIn(iterOrder, submitted[j])
    /\ (/\ Len(submitted) = 3
        /\ FirstRow("idA") = 1 /\ FirstRow("idB") = 2 /\ FirstRow("idC") = 3
        /\ DOMAIN downloaded_videos = {"idB"})
          => submitted \in {<<"idB", "idA", "idC">>, <<"idB", "idC", "idA">>}

C4_Witness ==
    /\ FirstRow("idA") = 1 /\ FirstRow("idB") = 2 /\ FirstRow("idC") = 3
    /\ DOMAIN downloaded_videos = {"idB"}
    /\ submitted = <<"idB", "idC", "idA">>

\* C5: a job that finds the output directory of its video id existing invokes
\* no trim, creates no file or directory and ends without error (Done); no other
\* job, the queue or the main thread is touched by it.
C5_ExistingDirSkips ==
    [][\A w \in Workers :
          (worker[w].pc = "mkdir" /\ worker[w].id \in outDirs /\ worker'[w] # worker[w]) =>
              /\ worker'[w] = IdleWorker
              /\ jobState' = [jobState EXCEPT ![worker[w].id] = "Done"]
              /\ trims' = trims /\ trims[worker[w].id] = <<>>
              /\ outFiles' = outFiles /\ outDirs' = outDirs /\ cacheDir' = cacheDir
              /\ \A u \in Workers \ {w} : worker'[u] = worker[u]
              /\ queue' = queue /\ mainPc' = mainPc]_vars

C5_Witness ==
    /\ mainPc = "done"
    /\ \E x, y \in DOMAIN jobState :
          /\ x \in outDirs /\ jobState[x] = "Done" /\ trims[x] = <<>>
          /\ jobState[y] = "Done" /\ Len(trims[y]) = 2

IndexText == <<"1", "2", "3", "4", "5", "6", "7", "8", "9">>

\* C6: within one job ffmpeg is invoked once per clip request of the group, one
\* invocation at a time, in the group's order (the row order, by C7); the k-th
\* invocation has the k-th request's start and end and writes
\* <DOWNLOAD_DIR>/<id>/<id> [k].mp4.
C6_TrimsInRowOrder ==
    \A id \in DOMAIN trims :
        LET reqs == videos[id]
            done == trims[id]
            mine == {w \in Workers : worker[w].pc # "idle" /\ worker[w].id = id}
            file(k) == "./video/" \o id \o "/" \o id \o " [" \o IndexText[k] \o "].mp4"
        IN /\ Len(done) <= Len(reqs)
           /\ \A k \in 1..Len(done) :
                 /\ done[k].index = k
                 /\ done[k].ss = reqs[k].start_time
                 /\ done[k].to = reqs[k].end_time
                 /\ done[k].output = file(k)
           /\ Cardinality(mine) <= 1
           /\ \A w \in mine :
                 /\ worker[w].pc = "ffmpeg" => worker[w].i = Len(done)
                 /\ worker[w].pc = "clip" => worker[w].i = Len(done) + 1
           /\ (jobState[id] = "Done" /\ done # <<>>) => Len(done) = Len(reqs)
           /\ \A k \in 1..Len(reqs) : file(k) \in outFiles => k <= Len(done)

C6_Witness ==
    \E id \in DOMAIN trims :
        /\ jobState[id] = "Done" /\ Len(trims[id]) = 2
        /\ trims[id][2].ss = "00:1:30" /\ trims[id][2].output = "./video/idA/idA [2].mp4"
        /\ trims[id][2].output \in outFiles

\* C7: for well-formed rows organize_videos builds exactly one group per
\* distinct video id; the group of X holds exactly the requests of the rows
\* whose link normalizes to X, in row order; every request carries X and no
\* group is empty.
C7_GroupsByVideoId ==
    Organized =>
        /\ DOMAIN videos = {IdOfRow[rows[k]] : k \in 1..Len(rows)}
        /\ \A X \in DOMAIN videos :
              /\ videos[X] # <<>>
              /\ Len(videos[X]) = Len(RowsOf(X))
              /\ \A k \in 1..Len(videos[X]) :
                    /\ videos[X][k].id = X
                    /\ videos[X][k].start_time = handle_time(RowsOf(X)[k].start)
                    /\ videos[X][k].end_time = handle_time(RowsOf(X)[k].end)

C7_Witness ==
    /\ Organized
    /\ Len(rows) = 3
    /\ DOMAIN videos = {"idA", "idB"}
    /\ IdOfRow[rows[2]] = "idB"
    /\ rows[1].link # rows[3].link
    /\ Len(videos["idA"]) = 2
    /\ videos["idA"][1].start_time = "00:1:30"

\* the malformed candidate rows (a table of the values of RowPanics)
BadRows == {r \in RowSet : RowPanics(r)}
HasBadRow == \E k \in 1..Len(rows) : rows[k] \in BadRows

\* C11: with a malformed row in the sheet the run aborts during grouping: no
\* job is submitted, no metadata query, download or trim is made and no
\* directory or file is created, whatever well-formed rows precede it.
C11_MalformedRowAborts ==
    /\ [](HasBadRow =>
            /\ mainPc \in {"check_cache", "organize", "panicked"}
            /\ submitted = <<>> /\ metaLog = <<>> /\ dlLog = <<>> /\ queue = <<>>
            /\ \A w \in Workers : worker[w].pc = "idle"
            /\ \A id \in DOMAIN trims : trims[id] = <<>>)
    /\ [][HasBadRow =>
            (outDirs' = outDirs /\ outFiles' = outFiles /\ cacheDir' = cacheDir)]_vars

C11_Witness ==
    /\ mainPc = "panicked"
    /\ Len(rows) = 3
    /\ rows[1] \notin BadRows /\ rows[2] \notin BadRows
    /\ rows[3] \in BadRows /\ rows[3].end = "0:1:2:3"
    /\ metaLog = <<>> /\ submitted = <<>>

Terminal == {"Done", "FetchFailed", "ClipFailed"}
Range(seq) == {seq[k] : k \in 1..Len(seq)}
RunningIds == {worker[w].id : w \in {u \in Workers : worker[u].pc # "idle"}}

\* C12: main returns only after every job has reached Done, FetchFailed or
\* ClipFailed: when the run has ended by main returning, no job is Pending,
\* Fetching, Fetched or Clipping, and the pool holds nothing.
C12_JoinWaitsForAllJobs ==
    mainPc = "done" =>
        /\ \A id \in DOMAIN jobState : jobState[id] \in Terminal
        /\ queue = <<>>
        /\ \A w \in Workers : worker[w].pc = "idle"

C12_Witness ==
    /\ mainPc = "done"
    /\ \E x, y \in DOMAIN jobState :
          /\ jobState[x] = "ClipFailed"
          /\ jobState[y] = "Done" /\ trims[y] # <<>>

\* C13: if the ffmpeg invocation for clip i of a video has failed (it returned
\* without writing its clip), no invocation with a greater index is made for
\* that video, and the job, once over, is ClipFailed.
C13_TrimFailureStopsJob ==
    \A id \in DOMAIN trims :
        \A k \in 1..Len(trims[id]) :
            LET returned == k < Len(trims[id])
                                \/ \A w \in Workers :
                                      ~(worker[w].pc = "ffmpeg" /\ worker[w].id = id)
                failed == returned /\ trims[id][k].output \notin outFiles
            IN failed =>
                  /\ Len(trims[id]) = k
                  /\ id \notin RunningIds => jobState[id] = "ClipFailed"

\* a step in which a trim of the job of worker w fails: ffmpeg can not be
\* started, or it returns without having written the clip
TrimFailStep(w) ==
    \/ worker[w].pc = "clip" /\ worker'[w].pc = "idle"
    \/ worker[w].pc = "ffmpeg" /\ worker'[w] # worker[w] /\ outFiles' = outFiles

\* C14: a trim failure in one job aborts nothing else: the failing step leaves
\* the main thread, the queue and every other job as they are, and when main
\* returns every job has ended, each one Done with all its clips invoked unless
\* its own ffmpeg could not be started.
C14_TrimFailureNoGlobalAbort ==
    /\ [][\A w \in Workers : TrimFailStep(w) =>
            /\ mainPc' = mainPc /\ idx' = idx /\ curVideo' = curVideo
            /\ queue' = queue /\ submitted' = submitted
            /\ \A u \in Workers \ {w} : worker'[u] = worker[u]
            /\ \A y \in DOMAIN jobState \ {worker[w].id} : jobState'[y] = jobState[y]]_vars
    /\ [](mainPc = "done" =>
            \A y \in DOMAIN jobState :
                /\ jobState[y] \in {"Done", "ClipFailed"}
                /\ jobState[y] = "ClipFailed" => Len(trims[y]) < Len(videos[y])
                /\ (jobState[y] = "Done" /\ trims[y] # <<>>)
                        => Len(trims[y]) = Len(videos[y]))

C14_Witness ==
    /\ mainPc = "done"
    /\ \E x, y \in DOMAIN jobState :
          /\ jobState[x] = "ClipFailed"
          /\ jobState[y] = "Done" /\ Len(trims[y]) = Len(videos[y])
          /\ PosIn(submitted, x) < PosIn(submitted, y)

\* the steps of a job's state; Fetched -> Done is the job that finds its
\* output directory existing and returns at once
JobEdges ==
    { <<"Pending", "Fetching">>, <<"Fetching", "FetchFailed">>, <<"Fetching", "Fetched">>,
      <<"Fetched", "Clipping">>, <<"Clipping", "ClipFailed">>, <<"Clipping", "Done">>,
      <<"Fetched", "Done">> }

\* C16: a job moves only along Pending -> Fetching -> {FetchFailed | Fetched}
\* -> Clipping -> {ClipFailed | Done}: no trim is made and no output directory
\* created for a video before its fetch has succeeded, and a job in
\* FetchFailed, ClipFailed or Done never changes state again.
C16_JobStateMachine ==
    /\ [](\A id \in DOMAIN trims :
            (trims[id] # <<>> \/ id \in RunningIds) =>
                /\ id \in Range(submitted)
                /\ jobState[id] \in {"Fetched", "Clipping", "ClipFailed", "Done"})
    /\ [][/\ DOMAIN jobState' = DOMAIN jobState =>
                \A id \in DOMAIN jobState :
                    jobState'[id] # jobState[id] =>
                        /\ <<jobState[id], jobState'[id]>> \in JobEdges
                        /\ (jobState[id] = "Fetched" /\ jobState'[id] = "Done")
                                => id \in outDirs
          /\ \A d \in outDirs' \ outDirs : jobState[d] = "Fetched"]_vars

C16_Witness ==
    /\ mainPc = "panicked"
    /\ \E x, y, z \in DOMAIN jobState :
          /\ jobState[x] = "FetchFailed"
          /\ jobState[y] = "Done" /\ trims[y] # <<>>
          /\ jobState[z] = "ClipFailed"

\* C18: jobs that run at the same time have distinct video ids and source
\* files, so no two trims in progress read the same file or write into the same
\* directory; every trim of a job writes into the directory named after the
\* job's id, and a directory is created only by the job of that id.
C18_JobsOwnDisjointFiles ==
    /\ [](/\ \A w, u \in Workers :
                (w # u /\ worker[w].pc # "idle" /\ worker[u].pc # "idle") =>
                    /\ worker[w].id # worker[u].id
                    /\ worker[w].path # worker[u].path
          /\ \A w \in Workers :
                worker[w].pc = "ffmpeg" =>
                    trims[worker[w].id][Len(trims[worker[w].id])].input = worker[w].path
          /\ \A id \in DOMAIN trims :
                \A k \in 1..Len(trims[id]) :
                    LET dir == "./video/" \o id \o "/"
                    IN SubSeq(trims[id][k].output, 1, Len(dir)) = dir)
    /\ [][\A d \in outDirs' \ outDirs :
            \E w \in Workers : worker[w].pc = "mkdir" /\ worker[w].id = d]_vars

C18_Witness ==
    \E w, u \in Workers :
        /\ w # u /\ worker[w].pc = "ffmpeg" /\ worker[u].pc = "ffmpeg"
        /\ worker[w].id = "idA" /\ worker[u].id = "idB"

\* C19: fetches are made one at a time by the main thread, in dispatch order:
\* the metadata query of the next video is made only after the job of the
\* previous one was submitted, and no download is started before the job of
\* every cached video was submitted.
C19_FetchesSerialized ==
    /\ Cardinality({id \in DOMAIN jobState : jobState[id] = "Fetching"}) <= 1
    /\ Len(metaLog) \in {Len(submitted), Len(submitted) + 1}
    /\ Len(metaLog) <= Len(id_videos)
    /\ \A k \in 1..Len(metaLog) : metaLog[k] = id_videos[k]
    /\ \A k \in 1..Len(submitted) : submitted[k] = metaLog[k]
    /\ \A k \in 1..Len(dlLog) : dlLog[k] \in Range(metaLog) \ Range(submitted)
                                  \/ dlLog[k] \in Range(submitted)
    /\ (Len(metaLog) > Len(submitted)) <=> (mainPc \in {"meta", "download", "check_folder", "submit"}
                                            \/ (mainPc = "panicked" /\ metaLog # <<>>))
    /\ dlLog # <<>> =>
          \A id \in DOMAIN videos : Cached(id) => id \in Range(submitted)

C19_Witness ==
    /\ mainPc = "download"
    /\ Len(dlLog) = 1 /\ Len(submitted) = 2
    /\ \E w \in Workers : worker[w].pc = "ffmpeg" /\ Cached(worker[w].id)

\* the process is alive and nothing in it can take a step: main is inside a
\* call that never returns or waits in pool.join(), no job is queued, and every
\* pool thread is free or inside a call that never returns
HangQuiescent ==
    /\ mainPc \in {"hung", "join"}
    /\ queue = <<>>
    /\ \A w \in Workers : worker[w].pc \in {"idle", "hung"}
    /\ mainPc = "hung" \/ \E w \in Workers : worker[w].pc = "hung"

HungIds ==
    {worker[w].id : w \in {u \in Workers : worker[u].pc = "hung"}}
        \cup (IF mainPc = "hung" THEN {curVideo.id} ELSE {})

\* C15: a fetch or trim that never returns blocks only its own job: when
\* nothing more can happen, every video other than the hung ones has been
\* fetched, submitted and has reached Done, FetchFailed or ClipFailed.
C15_HangIsolated ==
    HangQuiescent =>
        \A id \in DOMAIN jobState \ HungIds :
            /\ jobState[id] \in Terminal
            /\ id \in Range(submitted)

Running == Cardinality({w \in Workers : worker[w].pc # "idle"})

\* C17: at most 4 jobs run in the pool at any moment; a submitted job goes to
\* the queue, and a job leaves the queue only when fewer than 4 are running,
\* so a job submitted while 4 run starts only after one of them has finished.
C17_AtMostFourRunning ==
    /\ [](Running <= 4)
    /\ [][/\ Len(submitted') > Len(submitted) =>
                /\ queue' = Append(queue, [id |-> curVideo.id, path |-> curVideo.path,
                                           clips |-> videos[curVideo.id]])
                /\ Running' = Running
          /\ Len(queue') < Len(queue) =>
                /\ Running < 4
                /\ Running' = Running + 1
                /\ queue' = Tail(queue)]_vars

C17_Witness ==
    /\ Running = 4
    /\ Len(queue) = 1
    /\ Len(submitted) = PoolSize + 1
    /\ \E id \in DOMAIN jobState : jobState[id] = "Fetched" /\ id \notin RunningIds

-----------------------------------------------------------------------------
(* Claims about the normalizer                                             *)

TimeApplied == normTimeOut \notin {"", "PANIC"}

\* C8 (as stated): handle_time gives the zero-padded HH:MM:SS form, each field
\* two digits wide; "5" gives "00:00:05", "1:30" gives "00:01:30", "1:02:03"
\* gives "01:02:03".
C8_ZeroPadded ==
    TimeApplied =>
        /\ Len(Split(normTimeOut, ":")) = 3
        /\ \A j \in 1..3 : Len(Split(normTimeOut, ":")[j]) = 2
        /\ (normTime = "5" => normTimeOut = "00:00:05")
        /\ (normTime = "1:30" => normTimeOut = "00:01:30")
        /\ (normTime = "1:02:03" => normTimeOut = "01:02:03")

\* C8 (amended): handle_time gives three colon-separated fields: the segments
\* of the input, unchanged and in order, preceded by one "00" field for each
\* missing leading field. No digit is added to a segment: "5" gives "00:00:5",
\* "1:30" gives "00:1:30", "1:02:03" gives "1:02:03"; the result is two digits
\* wide in every field exactly when every segment of the input is.
C8_MissingFieldsPrefixed ==
    TimeApplied =>
        LET in == Split(normTime, ":")
            out == Split(normTimeOut, ":")
            pad == 3 - Len(in)
        IN /\ Len(out) = 3
           /\ \A j \in 1..3 : out[j] = IF j <= pad THEN "00" ELSE in[j - pad]
           /\ (\A j \in 1..3 : Len(out[j]) = 2) <=> (\A j \in 1..Len(in) : Len(in[j]) = 2)
           /\ (normTime = "5" => normTimeOut = "00:00:5")
           /\ (normTime = "1:30" => normTimeOut = "00:1:30")
           /\ (normTime = "1:02:03" => normTimeOut = "1:02:03")

C8_Witness == normTime = "1:30" /\ normTimeOut = "00:1:30"

\* C9: every supported shape of a video's link reduces through handle_link to
\* the canonical watch URL of that video, and VideoLink::new extracts the
\* video's id from it.
C9_AllShapesSameCanonical ==
    normShape \in SupportedShapes =>
        /\ (normK >= 1 => normOnce = WATCH_PREFIX \o normVid)
        /\ (normId # "" => normId = normVid)

\* C10: on every supported shape handle_link(handle_link(x)) = handle_link(x),
\* and the result contains the v= marker followed by the video id.
C10_Idempotent ==
    normShape \in SupportedShapes =>
        /\ (normK >= 1 => Contains(normOnce, "v=" \o normVid))
        /\ (normK = 2 => normCur = normOnce)

C10_Witness ==
    /\ normShape = "watch_index_list" /\ normK = 2
    /\ normOnce # normLink /\ normCur = normOnce

====
